---- MODULE Spec2Model ----
\* Release Date Finder: the stream request handler of src/server.js (and the
\* earlier revisions of it kept in src/unnamed/part_000), with the candidate
\* grouper, the movie classification walk and the series air-date logic.
EXTENDS FiniteSets, Integers, Sequences, TLC

\* ------------------------------------------------------------------ bounds

\* longest list of release records in one release_dates payload
MaxRecords == 3
\* longest list of episodes in one season payload
MaxEpisodes == 3
\* how many stream requests are in flight at once
MaxInFlight == 2

\* ------------------------------------------------------------------ values

\* JavaScript null / undefined
Null == [null |-> TRUE]

\* A Date object: a time value, or NaN (an Invalid Date).
MkDate(n) == [valid |-> TRUE, t |-> n]
InvalidDate == [valid |-> FALSE, t |-> 0]

\* Release-date strings a provider record may carry; the last one does not parse.
RawDates == {"2024-01-01", "2024-02-15", "2024-03-01", "garbage"}
\* Air-date strings of episodes; "" is the falsy (missing) air date.
AirDates == {"2024-01-01", "2024-01-08", "garbage", ""}

\* new Date(s): the time value of an ISO date string (counted in days from
\* 2023-12-31), an Invalid Date for anything else.
ParseDate(s) ==
  CASE s = "2024-01-01" -> MkDate(1)
    [] s = "2024-01-08" -> MkDate(8)
    [] s = "2024-02-15" -> MkDate(46)
    [] s = "2024-03-01" -> MkDate(61)
    [] OTHER -> InvalidDate

\* ISO 3166-1 codes of the payload, in the order String comparison gives them.
CountryOrder == <<"FR", "US">>
Countries == {CountryOrder[i] : i \in 1..Len(CountryOrder)}
CountryRank(c) == CHOOSE i \in 1..Len(CountryOrder) : CountryOrder[i] = c

\* a.date < b.date on Date objects: false when either is an Invalid Date
DateLess(a, b) == a.valid /\ b.valid /\ a.t < b.t
\* a.getTime() === b.getTime(): NaN === NaN is false
SameTime(a, b) == a.valid /\ b.valid /\ a.t = b.t

\* ------------------------------------------------------------------ sorting

\* (a, b) => a.date - b.date as Array.prototype.sort reads it: a NaN result
\* counts as +0.
DateCompare(a, b) ==
  IF a.date.valid /\ b.date.valid THEN a.date.t - b.date.t ELSE 0

Reverse(s) == [i \in 1..Len(s) |-> s[Len(s) + 1 - i]]

\* arr with the element at index from moved to index to (to <= from)
MoveTo(arr, from, to) ==
  [i \in 1..Len(arr) |->
     IF i < to \/ i > from THEN arr[i]
     ELSE IF i = to THEN arr[from] ELSE arr[i - 1]]

\* Length of the run that starts the array: ascending (non-strict) or strictly
\* descending, as the first comparison decides.
RECURSIVE RunLength(_, _, _)
RunLength(arr, idx, desc) ==
  IF idx > Len(arr) THEN idx - 1
  ELSE LET order == DateCompare(arr[idx], arr[idx - 1])
       IN  IF (desc /\ order >= 0) \/ (~desc /\ order < 0)
           THEN idx - 1
           ELSE RunLength(arr, idx + 1, desc)

\* Where the pivot goes among arr[left .. right-1], which is sorted.
RECURSIVE BinarySearch(_, _, _, _)
BinarySearch(arr, pivot, left, right) ==
  IF left >= right THEN left
  ELSE LET mid == left + ((right - left) \div 2)
       IN  IF DateCompare(pivot, arr[mid]) < 0
           THEN BinarySearch(arr, pivot, left, mid)
           ELSE BinarySearch(arr, pivot, mid + 1, right)

RECURSIVE BinaryInsertionSort(_, _)
BinaryInsertionSort(arr, start) ==
  IF start > Len(arr) THEN arr
  ELSE BinaryInsertionSort(
         MoveTo(arr, start, BinarySearch(arr, arr[start], 1, start)),
         start + 1)

\* arr.sort((a, b) => a.date - b.date) on an array of fewer than 64 elements,
\* as the runtime does it: the opening run is found (and reversed when it
\* descends), the rest is inserted by binary search. With valid dates only this
\* is the stable ascending sort; with an Invalid Date in the array the
\* comparator is inconsistent and the order is the one these steps leave.
SortByDate(arr) ==
  IF Len(arr) < 2 THEN arr
  ELSE LET desc == DateCompare(arr[2], arr[1]) < 0
           n == RunLength(arr, 3, desc)
           run == SubSeq(arr, 1, n)
       IN  BinaryInsertionSort(
             (IF desc THEN Reverse(run) ELSE run) \o SubSeq(arr, n + 1, Len(arr)),
             n + 1)

\* countries.sort(): ascending by code units
RECURSIVE SortCountries(_)
SortCountries(cs) ==
  IF Len(cs) < 2 THEN cs
  ELSE LET m == CHOOSE i \in 1..Len(cs) :
                  \A j \in 1..Len(cs) :
                     CountryRank(cs[i]) < CountryRank(cs[j])
                     \/ (CountryRank(cs[i]) = CountryRank(cs[j]) /\ i <= j)
       IN  <<cs[m]>> \o SortCountries(SubSeq(cs, 1, m - 1) \o SubSeq(cs, m + 1, Len(cs)))

\* ------------------------------------------------------------------ grouper

Includes(s, x) == \E i \in 1..Len(s) : s[i] = x

NewGroup(cand) ==
  [date |-> cand.date, countries |-> <<cand.country>>, isSuspicious |-> FALSE]

\* candidates.forEach(cand => ...) from the second candidate on, cur being the
\* open group; the open group is pushed at the end.
RECURSIVE ScanCandidates(_, _, _, _)
ScanCandidates(cands, i, groups, cur) ==
  IF i > Len(cands) THEN Append(groups, cur)
  ELSE LET cand == cands[i]
       IN  IF SameTime(cand.date, cur.date)
           THEN ScanCandidates(cands, i + 1, groups,
                  [cur EXCEPT !.countries =
                     IF Includes(@, cand.country) THEN @ ELSE Append(@, cand.country)])
           ELSE ScanCandidates(cands, i + 1, Append(groups, cur), NewGroup(cand))

groupCandidates(candidates) ==
  IF Len(candidates) = 0 THEN <<>>
  ELSE LET sorted == SortByDate(candidates)
           groups == SortByDate(ScanCandidates(sorted, 2, <<>>, NewGroup(sorted[1])))
       IN  [i \in 1..Len(groups) |->
              [groups[i] EXCEPT !.countries = SortCountries(@)]]

\* ------------------------------------------------------------------ movie classification

\* The walk over gDig when a theatrical group exists: a group dated before the
\* theatrical date is marked and kept; the first other group is unmarked, kept
\* and ends the walk.
RECURSIVE WalkDigital(_, _, _, _)
WalkDigital(gDig, finalTheat, i, finalDig) ==
  IF i > Len(gDig) THEN finalDig
  ELSE IF DateLess(gDig[i].date, finalTheat.date)
       THEN WalkDigital(gDig, finalTheat, i + 1,
                        Append(finalDig, [gDig[i] EXCEPT !.isSuspicious = TRUE]))
       ELSE Append(finalDig, [gDig[i] EXCEPT !.isSuspicious = FALSE])

\* let finalTheat = gTheat[0] || null
FinalTheat(gTheat) == IF Len(gTheat) > 0 THEN gTheat[1] ELSE Null

\* finalDig with the walk's index started at 1: the first group is never visited
FinalDigFromSecond(gDig, finalTheat) ==
  IF Len(gDig) > 0
  THEN IF finalTheat # Null
       THEN WalkDigital(gDig, finalTheat, 2, <<>>)
       ELSE <<gDig[1]>>
  ELSE <<>>

\* finalDig as the handler fills it
FinalDig(gDig, finalTheat) ==
  IF Len(gDig) > 0
  THEN IF finalTheat # Null
       THEN WalkDigital(gDig, finalTheat, 1, <<>>)
       ELSE <<gDig[1]>>
  ELSE <<>>

\* gDig after the walk: finalDig holds the very objects of gDig, so the marks
\* the walk sets show in gDig too.
MarkedDig(gDig, finalDig) == finalDig \o SubSeq(gDig, Len(finalDig) + 1, Len(gDig))

\* data.results.forEach(ce => ce.release_dates.forEach(r => ...)): the records
\* in visiting order, each with the country entry it sits under.
RECURSIVE Collect(_, _)
Collect(records, type) ==
  IF Len(records) = 0 THEN <<>>
  ELSE LET r == records[1]
           rest == Collect(Tail(records), type)
       IN  IF r.type = type
           THEN <<[date |-> ParseDate(r.release_date), country |-> r.iso_3166_1]>> \o rest
           ELSE rest

\* ------------------------------------------------------------------ remote payloads

\* The revisions of the handler: the one of server.js, and the earlier one of
\* part_000 (its defineStreamHandler and handleStreamRequest agree).
Revisions == {"current", "legacy"}
Types == {"movie", "series", "other"}

\* The decoded config: apiKey "" stands for a config without a key.
Configs ==
  { [apiKey |-> "", timezone |-> "UTC"],
    [apiKey |-> "key", timezone |-> "UTC"],
    [apiKey |-> "key", timezone |-> "Nowhere/Land"] }
TimezoneKnown(tz) == tz = "UTC"

\* /find: the call throws, or answers with the two result lists (TRUE: non-empty)
FindPayloads ==
  {[throws |-> TRUE, movie_results |-> FALSE, tv_results |-> FALSE]}
  \cup [throws : {FALSE}, movie_results : BOOLEAN, tv_results : BOOLEAN]

\* A record of type 3 or 4 for each country and date string, and one record of
\* another type (the handler reads nothing of such a record but its type).
ReleaseRecords ==
  [iso_3166_1 : Countries, release_date : RawDates, type : {3, 4}]
  \cup {[iso_3166_1 |-> "US", release_date |-> "2024-01-01", type |-> 1]}
RecordLists == UNION {[1..n -> ReleaseRecords] : n \in 0..MaxRecords}
\* /movie/{id}/release_dates: the call throws, or the payload has no results
\* field, or it lists release records
MoviePayloads ==
  {[throws |-> TRUE, has_results |-> FALSE, results |-> <<>>],
   [throws |-> FALSE, has_results |-> FALSE, results |-> <<>>]}
  \cup {[throws |-> FALSE, has_results |-> TRUE, results |-> rs] : rs \in RecordLists}

Episodes == {Null} \cup [air_date : AirDates]
\* /tv/{id}: throws, or carries the next and last episode records (or neither)
SeriesPayloads ==
  {[throws |-> TRUE, next_episode_to_air |-> Null, last_episode_to_air |-> Null]}
  \cup [throws : {FALSE}, next_episode_to_air : Episodes, last_episode_to_air : Episodes]

EpisodeLists == UNION {[1..n -> [air_date : AirDates]] : n \in 0..MaxEpisodes}
\* /tv/{id}/season/{n}: throws, has no episodes field, or lists episodes
SeasonPayloads ==
  {[throws |-> TRUE, has_episodes |-> FALSE, episodes |-> <<>>],
   [throws |-> FALSE, has_episodes |-> FALSE, episodes |-> <<>>]}
  \cup {[throws |-> FALSE, has_episodes |-> TRUE, episodes |-> es] : es \in EpisodeLists}

\* ------------------------------------------------------------------ state

VARIABLES
  rev,          \* which revision of the handler serves the request
  type,         \* req.params.type
  config,       \* the decoded config
  pc,           \* where the handler stands: start, find, primary, season, done
  calls,        \* the remote calls issued so far, in order
  tmdbId,       \* the resolved id, or Null
  pushedTheat,  \* theatrical as the forEach built it
  pushedDig,    \* digital as the forEach built it
  theatrical,   \* the theatrical array after groupCandidates
  digital,      \* the digital array after groupCandidates
  gTheat, gDig, finalTheat, finalDig,
  details,      \* the /tv payload, or Null
  seasonData,   \* the season payload, or Null before it arrives
  targetDate, labelText,
  result        \* what the handler resolves to, or Null while it runs

\* Several requests in flight: what each call of handleStreamRequest holds.
VARIABLES
  frame,        \* per call: its parameters and the locals that live across an await
  at,           \* per call: where it stands (start, find, primary, season, done)
  answer,       \* per call: what its promise resolved to, or Null
  received,     \* per call: the payloads its awaited remote calls gave it, in order
  interleaved   \* a /tv answer was handled while another call awaited its season lookup

singleVars ==
  <<rev, type, config, pc, calls, tmdbId, pushedTheat, pushedDig, theatrical, digital,
    gTheat, gDig, finalTheat, finalDig, details, seasonData, targetDate, labelText, result>>
concVars == <<frame, at, answer, received, interleaved>>

vars == <<singleVars, concVars>>

movieVars == <<pushedTheat, pushedDig, theatrical, digital, gTheat, gDig, finalTheat, finalDig>>
seriesVars == <<details, seasonData, targetDate, labelText>>

\* ------------------------------------------------------------------ output

ConfigureStream == [kind |-> "configure", lines |-> <<>>]
EmptyStreams == [kind |-> "empty", lines |-> <<>>]
ErrorStream == [kind |-> "error", lines |-> <<>>]
OneStream(outputLines) == [kind |-> "stream", lines |-> outputLines]

\* formatDate throws a RangeError on an Invalid Date; the current revision also
\* throws on a time zone Intl does not know, the earlier one falls back to
\* toISOString there.
FormatThrows(r, date, tz) ==
  ~date.valid \/ (r = "current" /\ ~TimezoneKnown(tz))

\* An output line: its words, the date it formats (Null for TBD), the regions
\* whose flags it shows and its note. The status emojis (date < now) and the
\* glyphs are presentation and are left out.
Line(label, date, countries, note) ==
  [label |-> label, date |-> date, countries |-> countries, note |-> note]

\* the words of the movie lines in each revision
TheatersLabel(r) == IF r = "current" THEN "Theaters" ELSE "Theatrical"
SuspiciousNote(r) == IF r = "current" THEN "(Likely Wrong)" ELSE "(Likely Untrue)"

MovieLines(r, ft, fd) ==
  <<IF ft # Null THEN Line(TheatersLabel(r), ft.date, ft.countries, "")
    ELSE Line(TheatersLabel(r), Null, <<>>, "")>>
  \o (IF Len(fd) > 0
      THEN [i \in 1..Len(fd) |->
              Line("Digital", fd[i].date, fd[i].countries,
                   IF fd[i].isSuspicious THEN SuspiciousNote(r) ELSE "")]
      ELSE <<Line("Digital", Null, <<>>, "")>>)

SeriesLines(td, label) ==
  IF td # Null
  THEN <<Line("Air Date", td, <<>>, "")>>
       \o (IF label # "" THEN <<Line(label, Null, <<>>, "")>> ELSE <<>>)
  ELSE <<Line("Air Date", Null, <<>>, "")>>

\* Render with the outer try/catch taken away: a throwing formatDate rejects
\* the handler's promise.
RenderUncaught(r, lines, tz) ==
  IF \E i \in 1..Len(lines) : lines[i].date # Null /\ FormatThrows(r, lines[i].date, tz)
  THEN [kind |-> "rejected", lines |-> <<>>]
  ELSE OneStream(lines)

\* The stream of the output lines, or the error stream when formatting one of
\* their dates throws.
Render(r, lines, tz) ==
  IF \E i \in 1..Len(lines) : lines[i].date # Null /\ FormatThrows(r, lines[i].date, tz)
  THEN ErrorStream
  ELSE OneStream(lines)

\* ------------------------------------------------------------------ series classification

LastSeason == "(Last Season)"
LastEpisodeLastSeason == "(Last Episode, Last Season)"

\* the Set of the truthy air_date strings of the season's episodes
AirDateSet(sd) ==
  IF ~sd.has_episodes THEN {}
  ELSE {sd.episodes[i].air_date : i \in {j \in 1..Len(sd.episodes) : sd.episodes[j].air_date # ""}}

\* labelText with the air dates kept in an array, not a Set: repeated dates
\* count again
SeasonLabelByEpisodeCount(sd) ==
  IF sd.throws THEN LastEpisodeLastSeason
  ELSE IF sd.has_episodes
          /\ Cardinality({i \in 1..Len(sd.episodes) : sd.episodes[i].air_date # ""}) = 1
       THEN LastSeason ELSE LastEpisodeLastSeason

\* labelText after the season lookup, its catch block included
SeasonLabel(sd) ==
  IF sd.throws THEN LastEpisodeLastSeason
  ELSE IF Cardinality(AirDateSet(sd)) = 1 THEN LastSeason ELSE LastEpisodeLastSeason

\* The result without the lookup's own try/catch: a throwing lookup reaches the
\* outer catch.
SeasonResultUncaught(sd, td, r, tz) ==
  IF sd.throws THEN ErrorStream ELSE Render(r, SeriesLines(td, SeasonLabel(sd)), tz)

\* What the handler resolves to once the season lookup has ended: the lookup's
\* own try/catch has set the label, then the lines are rendered.
SeasonResult(sd, td, r, tz) == Render(r, SeriesLines(td, SeasonLabel(sd)), tz)

\* details.next_episode_to_air?.air_date || details.last_episode_to_air?.air_date
LegacyTargetString(d) ==
  IF d.next_episode_to_air # Null /\ d.next_episode_to_air.air_date # ""
  THEN d.next_episode_to_air.air_date
  ELSE IF d.last_episode_to_air # Null /\ d.last_episode_to_air.air_date # ""
       THEN d.last_episode_to_air.air_date
       ELSE ""

\* ------------------------------------------------------------------ the handler

\* no calls besides the one the single-request variables describe
NoRequests ==
  /\ frame = <<>> /\ at = <<>> /\ answer = <<>> /\ received = <<>>
  /\ interleaved = FALSE

Init ==
  /\ rev \in Revisions
  /\ type \in Types
  /\ config \in Configs
  /\ pc = "start"
  /\ calls = <<>>
  /\ tmdbId = Null
  /\ pushedTheat = <<>> /\ pushedDig = <<>>
  /\ theatrical = <<>> /\ digital = <<>>
  /\ gTheat = <<>> /\ gDig = <<>>
  /\ finalTheat = Null /\ finalDig = <<>>
  /\ details = Null /\ seasonData = Null
  /\ targetDate = Null /\ labelText = ""
  /\ result = Null
  /\ NoRequests

\* The config check, then the /find call is issued.
Start ==
  /\ pc = "start"
  /\ IF config.apiKey = ""
     THEN /\ result' = ConfigureStream
          /\ pc' = "done"
          /\ calls' = calls
     ELSE /\ calls' = Append(calls, "find")
          /\ pc' = "find"
          /\ result' = result
  /\ UNCHANGED <<concVars, rev, type, config, tmdbId, movieVars, seriesVars>>

\* The /find answer arrives: the id is resolved and the primary call issued, or
\* the handler returns no streams.
FindResolve ==
  /\ pc = "find"
  /\ \E findData \in FindPayloads :
       IF ~findData.throws /\ type = "movie" /\ findData.movie_results
       THEN /\ tmdbId' = [id |-> "movie_results[0].id"]
            /\ calls' = Append(calls, "primary")
            /\ pc' = "primary"
            /\ result' = result
       ELSE IF ~findData.throws /\ type = "series" /\ findData.tv_results
            THEN /\ tmdbId' = [id |-> "tv_results[0].id"]
                 /\ calls' = Append(calls, "primary")
                 /\ pc' = "primary"
                 /\ result' = result
            ELSE /\ result' = EmptyStreams
                 /\ pc' = "done"
                 /\ UNCHANGED <<tmdbId, calls>>
  /\ UNCHANGED <<concVars, rev, type, config, movieVars, seriesVars>>

\* The release_dates answer arrives: candidates are collected, grouped and
\* classified, and the lines rendered.
MovieResolve ==
  /\ pc = "primary" /\ type = "movie"
  /\ \E data \in MoviePayloads :
       IF data.throws
       THEN /\ result' = ErrorStream
            /\ UNCHANGED movieVars
       ELSE LET th == IF data.has_results THEN Collect(data.results, 3) ELSE <<>>
                dg == IF data.has_results THEN Collect(data.results, 4) ELSE <<>>
                gT == groupCandidates(th)
                gD == groupCandidates(dg)
                fT == FinalTheat(gT)
                fD == FinalDig(gD, fT)
            IN  /\ pushedTheat' = th
                /\ pushedDig' = dg
                /\ theatrical' = SortByDate(th)
                /\ digital' = SortByDate(dg)
                /\ gTheat' = gT
                /\ gDig' = MarkedDig(gD, fD)
                /\ finalTheat' = fT
                /\ finalDig' = fD
                /\ result' = Render(rev, MovieLines(rev, fT, fD), config.timezone)
  /\ pc' = "done"
  /\ UNCHANGED <<concVars, rev, type, config, calls, tmdbId, seriesVars>>

\* The /tv answer arrives at the current revision: the next episode decides, or
\* the last episode does and the season lookup is issued, or neither exists.
SeriesResolve ==
  /\ pc = "primary" /\ type = "series" /\ rev = "current"
  /\ \E d \in SeriesPayloads :
       IF d.throws
       THEN /\ result' = ErrorStream
            /\ pc' = "done"
            /\ UNCHANGED <<details, targetDate, calls>>
       ELSE /\ details' = d
            /\ IF d.next_episode_to_air # Null
               THEN /\ targetDate' = ParseDate(d.next_episode_to_air.air_date)
                    /\ result' = Render(rev, SeriesLines(targetDate', ""), config.timezone)
                    /\ pc' = "done"
                    /\ calls' = calls
               ELSE IF d.last_episode_to_air # Null
                    THEN /\ targetDate' = ParseDate(d.last_episode_to_air.air_date)
                         /\ calls' = Append(calls, "season")
                         /\ pc' = "season"
                         /\ result' = result
                    ELSE /\ targetDate' = Null
                         /\ result' = Render(rev, SeriesLines(Null, ""), config.timezone)
                         /\ pc' = "done"
                         /\ calls' = calls
  /\ UNCHANGED <<concVars, rev, type, config, tmdbId, movieVars, seasonData, labelText>>

\* The season answer arrives (or the lookup fails): the label is set and the
\* lines rendered.
SeasonResolve ==
  /\ pc = "season"
  /\ \E sd \in SeasonPayloads :
       /\ seasonData' = sd
       /\ labelText' = SeasonLabel(sd)
       /\ result' = SeasonResult(sd, targetDate, rev, config.timezone)
  /\ pc' = "done"
  /\ UNCHANGED <<concVars, rev, type, config, calls, tmdbId, movieVars, details, targetDate>>

\* The /tv answer arrives at the earlier revision: one air-date string is
\* picked, no label, no season lookup.
SeriesResolveLegacy ==
  /\ pc = "primary" /\ type = "series" /\ rev = "legacy"
  /\ \E d \in SeriesPayloads :
       IF d.throws
       THEN /\ result' = ErrorStream
            /\ UNCHANGED <<details, targetDate>>
       ELSE /\ details' = d
            /\ targetDate' = IF LegacyTargetString(d) # ""
                             THEN ParseDate(LegacyTargetString(d)) ELSE Null
            /\ result' = Render(rev, SeriesLines(targetDate', ""), config.timezone)
  /\ pc' = "done"
  /\ UNCHANGED <<concVars, rev, type, config, calls, tmdbId, movieVars, seasonData, labelText>>

Next ==
  \/ Start
  \/ FindResolve
  \/ MovieResolve
  \/ SeriesResolve
  \/ SeasonResolve
  \/ SeriesResolveLegacy

Spec == Init /\ [][Next]_vars

\* ------------------------------------------------------------------ requests in flight

\* The calls of handleStreamRequest the route has made and not yet answered.
Requests == 1..MaxInFlight

\* All calls sharing the bindings of the first one, as module-level variables
\* would be shared.
SharedFrame(i) == 1

\* The activation record a step of call i reads and writes: every call of the
\* async function has its own parameters and its own let/const bindings.
Frame(i) == i

Record(c, d, t) == [iso_3166_1 |-> c, release_date |-> d, type |-> t]
Answered(rs) == [throws |-> FALSE, has_results |-> TRUE, results |-> rs]
Listed(es) == [throws |-> FALSE, has_episodes |-> TRUE, episodes |-> es]
Aired(nx, ls) == [throws |-> FALSE, next_episode_to_air |-> nx, last_episode_to_air |-> ls]

\* The payloads the remote gives the calls in flight: a throwing call and a few
\* answers for each endpoint, distinct enough to tell the calls apart.
MoviesInFlight ==
  { [throws |-> TRUE, has_results |-> FALSE, results |-> <<>>],
    Answered(<<Record("US", "2024-02-15", 3), Record("US", "2024-01-01", 4)>>),
    Answered(<<Record("FR", "2024-01-01", 3), Record("FR", "2024-03-01", 4)>>) }
SeriesInFlight ==
  { [throws |-> TRUE, next_episode_to_air |-> Null, last_episode_to_air |-> Null],
    Aired([air_date |-> "2024-01-08"], [air_date |-> "2024-01-01"]),
    Aired(Null, [air_date |-> "2024-01-01"]),
    Aired(Null, [air_date |-> "2024-01-08"]),
    Aired(Null, Null) }
SeasonsInFlight ==
  { [throws |-> TRUE, has_episodes |-> FALSE, episodes |-> <<>>],
    Listed(<<[air_date |-> "2024-01-01"], [air_date |-> "2024-01-01"]>>),
    Listed(<<[air_date |-> "2024-01-01"], [air_date |-> "2024-01-08"]>>) }

\* the /find answer names a title of the requested type
Found(t, findData) ==
  /\ ~findData.throws
  /\ \/ t = "movie" /\ findData.movie_results
     \/ t = "series" /\ findData.tv_results

\* The movie branch from the release_dates payload to the returned object.
MovieResult(data, r, tz) ==
  IF data.throws THEN ErrorStream
  ELSE LET th == IF data.has_results THEN Collect(data.results, 3) ELSE <<>>
           dg == IF data.has_results THEN Collect(data.results, 4) ELSE <<>>
           fT == FinalTheat(groupCandidates(th))
           fD == FinalDig(groupCandidates(dg), fT)
       IN  Render(r, MovieLines(r, fT, fD), tz)

\* The calls arrive together, each with its own type and config; the
\* single-request variables stand still.
InitInFlight ==
  /\ rev = "current" /\ type = "other"
  /\ config = [apiKey |-> "", timezone |-> "UTC"]
  /\ pc = "start"
  /\ calls = <<>>
  /\ tmdbId = Null
  /\ pushedTheat = <<>> /\ pushedDig = <<>>
  /\ theatrical = <<>> /\ digital = <<>>
  /\ gTheat = <<>> /\ gDig = <<>>
  /\ finalTheat = Null /\ finalDig = <<>>
  /\ details = Null /\ seasonData = Null
  /\ targetDate = Null /\ labelText = ""
  /\ result = Null
  /\ frame \in [Requests -> [type : {"movie", "series"}, config : Configs,
                             tmdbId : {Null}, targetDate : {Null}]]
  /\ at = [i \in Requests |-> "start"]
  /\ answer = [i \in Requests |-> Null]
  /\ received = [i \in Requests |-> <<>>]
  /\ interleaved = FALSE

\* Call i runs up to its first await: the config check, then /find is issued.
Begin(i) ==
  /\ at[i] = "start"
  /\ IF frame[Frame(i)].config.apiKey = ""
     THEN /\ answer' = [answer EXCEPT ![i] = ConfigureStream]
          /\ at' = [at EXCEPT ![i] = "done"]
     ELSE /\ at' = [at EXCEPT ![i] = "find"]
          /\ answer' = answer
  /\ UNCHANGED <<frame, received, interleaved, singleVars>>

\* The /find answer of call i arrives.
FindSettles(i) ==
  /\ at[i] = "find"
  /\ \E findData \in FindPayloads :
       /\ received' = [received EXCEPT ![i] = Append(@, findData)]
       /\ IF Found(frame[Frame(i)].type, findData)
          THEN /\ frame' = [frame EXCEPT ![Frame(i)].tmdbId =
                              [id |-> IF frame[Frame(i)].type = "movie"
                                      THEN "movie_results[0].id" ELSE "tv_results[0].id"]]
               /\ at' = [at EXCEPT ![i] = "primary"]
               /\ answer' = answer
          ELSE /\ answer' = [answer EXCEPT ![i] = EmptyStreams]
               /\ at' = [at EXCEPT ![i] = "done"]
               /\ frame' = frame
  /\ UNCHANGED <<interleaved, singleVars>>

\* The release_dates answer of call i arrives.
MovieSettles(i) ==
  /\ at[i] = "primary" /\ frame[Frame(i)].type = "movie"
  /\ \E data \in MoviesInFlight :
       /\ received' = [received EXCEPT ![i] = Append(@, data)]
       /\ answer' = [answer EXCEPT ![i] =
                       MovieResult(data, "current", frame[Frame(i)].config.timezone)]
  /\ at' = [at EXCEPT ![i] = "done"]
  /\ UNCHANGED <<frame, interleaved, singleVars>>

\* The /tv answer of call i arrives: targetDate is set; with a last episode
\* only, the season lookup is issued.
SeriesSettles(i) ==
  /\ at[i] = "primary" /\ frame[Frame(i)].type = "series"
  /\ \E d \in SeriesInFlight :
       LET tz == frame[Frame(i)].config.timezone
       IN
       /\ received' = [received EXCEPT ![i] = Append(@, d)]
       /\ IF d.throws
          THEN /\ answer' = [answer EXCEPT ![i] = ErrorStream]
               /\ at' = [at EXCEPT ![i] = "done"]
               /\ frame' = frame
          ELSE IF d.next_episode_to_air # Null
          THEN LET td == ParseDate(d.next_episode_to_air.air_date)
               IN  /\ frame' = [frame EXCEPT ![Frame(i)].targetDate = td]
                   /\ answer' = [answer EXCEPT ![i] =
                                   Render("current", SeriesLines(td, ""), tz)]
                   /\ at' = [at EXCEPT ![i] = "done"]
          ELSE IF d.last_episode_to_air # Null
          THEN /\ frame' = [frame EXCEPT ![Frame(i)].targetDate =
                              ParseDate(d.last_episode_to_air.air_date)]
               /\ at' = [at EXCEPT ![i] = "season"]
               /\ answer' = answer
          ELSE /\ frame' = [frame EXCEPT ![Frame(i)].targetDate = Null]
               /\ answer' = [answer EXCEPT ![i] =
                               Render("current", SeriesLines(Null, ""), tz)]
               /\ at' = [at EXCEPT ![i] = "done"]
       /\ interleaved' =
            (interleaved \/ (~d.throws /\ \E j \in Requests \ {i} : at[j] = "season"))
  /\ UNCHANGED singleVars

\* The season answer of call i arrives (or the lookup fails).
SeasonSettles(i) ==
  /\ at[i] = "season"
  /\ \E sd \in SeasonsInFlight :
       /\ received' = [received EXCEPT ![i] = Append(@, sd)]
       /\ answer' = [answer EXCEPT ![i] =
                       SeasonResult(sd, frame[Frame(i)].targetDate, "current",
                                    frame[Frame(i)].config.timezone)]
  /\ at' = [at EXCEPT ![i] = "done"]
  /\ UNCHANGED <<frame, interleaved, singleVars>>

\* The event loop resumes whichever call's awaited answer has arrived.
NextInFlight ==
  \E i \in Requests :
    \/ Begin(i)
    \/ FindSettles(i)
    \/ MovieSettles(i)
    \/ SeriesSettles(i)
    \/ SeasonSettles(i)

SpecInFlight == InitInFlight /\ [][NextInFlight]_vars

\* ------------------------------------------------------------------ vocabulary of the properties

AllValid(cands) == \A i \in 1..Len(cands) : cands[i].date.valid
ValidInput == AllValid(pushedTheat) /\ AllValid(pushedDig)

\* the time values of the candidates that have one
ValidTimes(cands) == {cands[i].date.t : i \in {j \in 1..Len(cands) : cands[j].date.valid}}
InvalidCount(cands) == Cardinality({i \in 1..Len(cands) : ~cands[i].date.valid})
\* the regions the candidates name for a date
RegionsOn(cands, date) ==
  {cands[i].country : i \in {j \in 1..Len(cands) : SameTime(cands[j].date, date)}}
RegionsOf(cands) == {cands[i].country : i \in 1..Len(cands)}
Range(s) == {s[i] : i \in 1..Len(s)}
MinOf(S) == CHOOSE x \in S : \A y \in S : x <= y

Permuted(s) == {[i \in 1..Len(s) |-> s[p[i]]] : p \in Permutations(1..Len(s))}

\* a group at or after the theatrical date
AtOrAfter(g, ft) == g.date.valid /\ ft.date.valid /\ g.date.t >= ft.date.t

\* ------------------------------------------------------------------ C1

\* The digital summary against the grouped digital list gd and the theatrical
\* group ft: the groups before ft are reported and marked, the first group at
\* or after ft is reported unmarked and is the last one reported, and what is
\* reported is a prefix of gd with no unmarked group but the last.
WalkContract(gd, ft, fd) ==
  /\ Len(fd) <= Len(gd)
  /\ \A i \in 1..Len(fd) :
        fd[i].date = gd[i].date /\ fd[i].countries = gd[i].countries
  /\ \A i \in 1..Len(gd) :
        DateLess(gd[i].date, ft.date) => i <= Len(fd) /\ fd[i].isSuspicious
  /\ \A i \in 1..Len(gd) :
        (AtOrAfter(gd[i], ft) /\ \A j \in 1..(i - 1) : ~AtOrAfter(gd[j], ft))
          => i = Len(fd) /\ ~fd[i].isSuspicious
  /\ \A i \in 1..Len(fd) : ~fd[i].isSuspicious => i = Len(fd)

\* C1: when a theatrical group exists, every digital group dated before it is
\* reported and marked suspicious, the first digital group at or after it is
\* reported unmarked and ends the list, and the reported groups are a prefix of
\* the grouped digital list with at most one unmarked group, the last.
C1_SuspiciousBoundary ==
  (pc = "done" /\ finalTheat # Null) => WalkContract(gDig, finalTheat, finalDig)

\* C1 on candidates whose dates are all valid.
C1_ValidDates ==
  (pc = "done" /\ finalTheat # Null /\ ValidInput)
    => WalkContract(gDig, finalTheat, finalDig)

\* ------------------------------------------------------------------ C2

\* The group ft is the one of the earliest candidate date, with every region
\* the candidates name for that date.
EarliestGroup(cands, ft) ==
  /\ ft # Null
  /\ ft.date.valid
  /\ ft.date.t = MinOf(ValidTimes(cands))
  /\ Range(ft.countries) = RegionsOn(cands, ft.date)

\* C2: the canonical theatrical group is absent exactly when there are no
\* theatrical candidates, and is otherwise the group of the minimum date among
\* them, holding every region observed for that date, in any input order.
\* Stated of the requests that answer with a stream.
C2_TheatricalIsEarliest ==
  (pc = "done" /\ result.kind = "stream") =>
    /\ (finalTheat = Null) <=> (Len(pushedTheat) = 0)
    /\ ValidTimes(pushedTheat) # {} => EarliestGroup(pushedTheat, finalTheat)

\* C2 on candidates whose dates are all valid.
C2_ValidDates ==
  (pc = "done" /\ ValidInput) =>
    /\ (finalTheat = Null) <=> (Len(pushedTheat) = 0)
    /\ Len(pushedTheat) > 0 => EarliestGroup(pushedTheat, finalTheat)

\* ------------------------------------------------------------------ C3

\* C3: with no theatrical candidates and at least one digital candidate the
\* digital summary is exactly the earliest-dated digital group, unmarked; with
\* no digital candidates it is empty, whether or not a theatrical group exists.
\* Stated of the requests that answer with a stream.
C3_NoTheatricalFallback ==
  (pc = "done" /\ result.kind = "stream") =>
    /\ Len(pushedDig) = 0 => finalDig = <<>>
    /\ (Len(pushedTheat) = 0 /\ Len(pushedDig) > 0) =>
          /\ Len(finalDig) = 1
          /\ ~finalDig[1].isSuspicious
          /\ ValidTimes(pushedDig) # {} => EarliestGroup(pushedDig, finalDig[1])

\* C3 on candidates whose dates are all valid.
C3_ValidDates ==
  (pc = "done" /\ ValidInput) =>
    /\ Len(pushedDig) = 0 => finalDig = <<>>
    /\ (Len(pushedTheat) = 0 /\ Len(pushedDig) > 0) =>
          /\ Len(finalDig) = 1
          /\ ~finalDig[1].isSuspicious
          /\ EarliestGroup(pushedDig, finalDig[1])

\* ------------------------------------------------------------------ C4

\* One group per distinct date of the input (an Invalid Date equals no date,
\* itself included), each with the regions the input names for its date, and
\* all the regions of the input between them.
GroupingComplete(cands, groups) ==
  /\ Len(groups) = Cardinality(ValidTimes(cands)) + InvalidCount(cands)
  /\ \A i \in 1..Len(groups) :
        groups[i].date.valid =>
          Range(groups[i].countries) = RegionsOn(cands, groups[i].date)
  /\ UNION {Range(groups[i].countries) : i \in 1..Len(groups)} = RegionsOf(cands)
  /\ Len(cands) = 0 => groups = <<>>

\* C4: groupCandidates returns as many groups as the input has distinct dates,
\* each holding exactly the regions that appear with its date, the union of the
\* groups' regions being the regions of the input; an empty input gives an
\* empty list. Stated of the requests that answer with a stream.
C4_GroupingComplete ==
  (pc = "done" /\ result.kind = "stream") =>
    /\ GroupingComplete(pushedTheat, groupCandidates(pushedTheat))
    /\ GroupingComplete(pushedDig, groupCandidates(pushedDig))

\* C4 on candidates whose dates are all valid.
C4_ValidDates ==
  (pc = "done" /\ ValidInput) =>
    /\ GroupingComplete(pushedTheat, groupCandidates(pushedTheat))
    /\ GroupingComplete(pushedDig, groupCandidates(pushedDig))

\* ------------------------------------------------------------------ C5

\* Groups in strictly ascending date order (of the groups that have a date),
\* regions without duplicates and in ascending order, no group marked.
GroupingCanonical(groups) ==
  /\ \A i, j \in 1..Len(groups) :
        (i < j /\ groups[i].date.valid /\ groups[j].date.valid)
          => groups[i].date.t < groups[j].date.t
  /\ \A i \in 1..Len(groups) :
        \A a, b \in 1..Len(groups[i].countries) :
          a < b => CountryRank(groups[i].countries[a]) < CountryRank(groups[i].countries[b])
  /\ \A i \in 1..Len(groups) : ~groups[i].isSuspicious

\* C5: the groups groupCandidates returns are strictly ascending by date, so no
\* two share a date; each group's regions are free of duplicates and sorted;
\* every group's suspicious flag is false. Stated of the requests that answer
\* with a stream.
C5_GroupingCanonical ==
  (pc = "done" /\ result.kind = "stream") =>
    /\ GroupingCanonical(groupCandidates(pushedTheat))
    /\ GroupingCanonical(groupCandidates(pushedDig))

\* C5 on candidates whose dates are all valid.
C5_ValidDates ==
  (pc = "done" /\ ValidInput) =>
    /\ GroupingCanonical(groupCandidates(pushedTheat))
    /\ GroupingCanonical(groupCandidates(pushedDig))

\* ------------------------------------------------------------------ C6

\* Every reordering of the two candidate lists groups alike and classifies
\* into the summary (ft, fd).
OrderIndependent(th, dg, ft, fd) ==
  /\ \A p \in Permuted(th) : groupCandidates(p) = groupCandidates(th)
  /\ \A q \in Permuted(dg) : groupCandidates(q) = groupCandidates(dg)
  /\ \A p \in Permuted(th) : \A q \in Permuted(dg) :
        /\ FinalTheat(groupCandidates(p)) = ft
        /\ FinalDig(groupCandidates(q), FinalTheat(groupCandidates(p))) = fd

\* C6: any two orderings of the same candidates give the same groups in the
\* same order with the same region lists, and so the same summary: the same
\* theatrical group and the same digital groups with the same marks. Stated of
\* the requests that answer with a stream.
C6_OrderIndependent ==
  (pc = "done" /\ result.kind = "stream") =>
    OrderIndependent(pushedTheat, pushedDig, finalTheat, finalDig)

\* C6 on candidates whose dates are all valid.
C6_ValidDates ==
  (pc = "done" /\ ValidInput) =>
    OrderIndependent(pushedTheat, pushedDig, finalTheat, finalDig)

\* ------------------------------------------------------------------ C7

\* the last-episode case of the current revision: no next-episode record, a
\* last-episode record, and the season lookup has ended
LastEpisodeCase ==
  /\ rev = "current" /\ pc = "done"
  /\ details # Null
  /\ details.next_episode_to_air = Null
  /\ details.last_episode_to_air # Null

\* the air dates the season's episodes carry, each once
DistinctAirDates(sd) ==
  {d \in AirDates : d # "" /\ \E i \in 1..Len(sd.episodes) : sd.episodes[i].air_date = d}

\* C7: in the last-episode case the label is "Last Season" exactly when the
\* season lookup succeeds and its episodes carry exactly one distinct air date;
\* in every other case (several dates, none, a failed lookup) it is
\* "Last Episode, Last Season".
C7_SeriesLabel ==
  LastEpisodeCase =>
    /\ seasonData # Null
    /\ labelText \in {LastSeason, LastEpisodeLastSeason}
    /\ (labelText = LastSeason)
         <=> (~seasonData.throws /\ Cardinality(DistinctAirDates(seasonData)) = 1)

\* several episodes of one air date gave "Last Season"
C7_Witness ==
  /\ LastEpisodeCase
  /\ Len(seasonData.episodes) >= 2
  /\ labelText = LastSeason

\* ------------------------------------------------------------------ C8

\* the ways the season lookup fails: the call or the parse throws, the payload
\* has no episodes
LookupFailed(sd) == sd.throws \/ ~sd.has_episodes \/ Len(sd.episodes) = 0

\* a season payload of two distinct air dates
TwoDates ==
  [throws |-> FALSE, has_episodes |-> TRUE,
   episodes |-> <<[air_date |-> "2024-01-01"], [air_date |-> "2024-01-08"]>>]

\* C8: a failed season lookup is absorbed: targetDate stays the last episode's
\* air date, the label is "Last Episode, Last Season", and the handler answers
\* what it answers when the lookup lists several distinct dates: the stream
\* with the air date and the label (an error only where formatting that air
\* date throws, lookup or no lookup).
C8_LookupFailureAbsorbed ==
  /\ (rev = "current" /\ pc = "season") =>
        targetDate = ParseDate(details.last_episode_to_air.air_date)
  /\ (LastEpisodeCase /\ LookupFailed(seasonData)) =>
        /\ targetDate = ParseDate(details.last_episode_to_air.air_date)
        /\ labelText = LastEpisodeLastSeason
        /\ result = SeasonResult(TwoDates, targetDate, rev, config.timezone)
        /\ ~FormatThrows(rev, targetDate, config.timezone) =>
              result = OneStream(<<Line("Air Date", targetDate, <<>>, ""),
                                   Line(LastEpisodeLastSeason, Null, <<>>, "")>>)

\* the lookup threw and the handler answered with the air date and the label
C8_Witness ==
  /\ LastEpisodeCase
  /\ seasonData.throws
  /\ result.kind = "stream"
  /\ labelText = LastEpisodeLastSeason

\* ------------------------------------------------------------------ C9

\* targetDate is the date of the air-date string s (no date when s is missing)
IsDateOf(td, s) ==
  IF s = "" THEN td = Null \/ ~td.valid ELSE td = ParseDate(s)

NextEpisodePrecedence ==
  details # Null =>
    /\ details.next_episode_to_air # Null =>
          /\ IsDateOf(targetDate, details.next_episode_to_air.air_date)
          /\ labelText = ""
          /\ ~Includes(calls, "season")
    /\ (details.next_episode_to_air = Null /\ details.last_episode_to_air = Null) =>
          /\ targetDate = Null
          /\ labelText = ""

\* C9: whenever a next-episode record exists, with or without a last-episode
\* record, targetDate is the next episode's date, the label is absent and the
\* season lookup is never issued; when neither record exists targetDate and
\* label are both absent.
C9_NextEpisodePrecedence == NextEpisodePrecedence

\* C9 in the current revision (server.js).
C9_CurrentRevision == rev = "current" => NextEpisodePrecedence

\* ------------------------------------------------------------------ C10

\* C10: classifying the reported digital groups again, against the same
\* theatrical group, gives the same summary: the same digital groups in the
\* same order with the same marks, and the same theatrical group.
C10_ClassificationIdempotent ==
  pc = "done" =>
    /\ FinalDig(finalDig, finalTheat) = finalDig
    /\ finalTheat # Null => FinalTheat(<<finalTheat>>) = finalTheat
    /\ finalTheat = Null => FinalTheat(<<>>) = Null

\* a summary of a marked group and the boundary group, with a theatrical group
C10_Witness ==
  /\ pc = "done" /\ result.kind = "stream"
  /\ finalTheat # Null
  /\ Len(finalDig) = 2
  /\ finalDig[1].isSuspicious /\ ~finalDig[2].isSuspicious

\* ------------------------------------------------------------------ C11

\* C11: a release record whose date string does not parse is dropped before
\* grouping, so every candidate handed to groupCandidates, theatrical or
\* digital, carries a valid date.
C11_InvalidDatesFiltered ==
  pc = "done" => AllValid(pushedTheat) /\ AllValid(pushedDig)

\* ------------------------------------------------------------------ C12

\* the groups groupCandidates returned are the groups the handler holds after
\* the classification, marks included
GroupsUntouched(cands, groups) == groups = groupCandidates(cands)

\* C12: groupCandidates leaves the caller's candidate list as it was (the same
\* elements in the same order), and the classification leaves the groups the
\* grouping returned as they were: no suspicious flag changes once the group is
\* built. Stated of the requests whose candidates all carry valid dates.
C12_Purity ==
  (pc = "done" /\ ValidInput) =>
    /\ theatrical = pushedTheat
    /\ digital = pushedDig
    /\ GroupsUntouched(pushedTheat, gTheat)
    /\ GroupsUntouched(pushedDig, gDig)

\* C12, its first half alone: the candidate lists after the call.
C12_CandidatesKept ==
  (pc = "done" /\ ValidInput) => theatrical = pushedTheat /\ digital = pushedDig

\* C12, its second half alone: the groups after the classification.
C12_GroupsKept ==
  (pc = "done" /\ ValidInput) =>
    GroupsUntouched(pushedTheat, gTheat) /\ GroupsUntouched(pushedDig, gDig)

\* ------------------------------------------------------------------ C13

\* What a call with the parameters of f resolves to when it runs alone and the
\* remote gives it the payloads of log in order; Null while an answer it awaits
\* is not in the log (or is not an answer of the endpoint it asks).
Alone(f, log) ==
  LET tz == f.config.timezone
  IN
  IF f.config.apiKey = "" THEN ConfigureStream
  ELSE IF Len(log) < 1 \/ log[1] \notin FindPayloads THEN Null
  ELSE IF ~Found(f.type, log[1]) THEN EmptyStreams
  ELSE IF Len(log) < 2 THEN Null
  ELSE IF f.type = "movie"
       THEN IF log[2] \in MoviesInFlight
            THEN MovieResult(log[2], "current", tz) ELSE Null
  ELSE IF log[2] \notin SeriesInFlight THEN Null
  ELSE IF log[2].throws THEN ErrorStream
  ELSE IF log[2].next_episode_to_air # Null
       THEN Render("current",
                   SeriesLines(ParseDate(log[2].next_episode_to_air.air_date), ""), tz)
  ELSE IF log[2].last_episode_to_air = Null
       THEN Render("current", SeriesLines(Null, ""), tz)
  ELSE IF Len(log) < 3 \/ log[3] \notin SeasonsInFlight THEN Null
  ELSE SeasonResult(log[3], ParseDate(log[2].last_episode_to_air.air_date), "current", tz)

\* Every call that has returned resolved to what it resolves to alone, a call
\* still running has resolved to nothing, and a call awaiting its season
\* lookup holds the date of its own last episode.
IsolatedResults ==
  \A i \in Requests :
    /\ at[i] = "done" => answer[i] # Null /\ answer[i] = Alone(frame[i], received[i])
    /\ at[i] # "done" => answer[i] = Null
    /\ at[i] = "season" =>
         /\ Len(received[i]) = 2
         /\ received[i][2] \in SeriesInFlight
         /\ frame[i].targetDate = ParseDate(received[i][2].last_episode_to_air.air_date)

\* A step changes the bindings, the log and the answer of the one call that
\* moves, and of no other.
WritesOwnFrame ==
  \A j \in Requests :
    at'[j] = at[j] =>
      frame'[j] = frame[j] /\ answer'[j] = answer[j] /\ received'[j] = received[j]

\* C13: with several stream requests in flight and their steps interleaved at
\* every await (id resolution, primary fetch, season lookup), each request
\* resolves to what it resolves to when run alone with the same remote
\* answers, and no step of one request writes what another holds.
C13_RequestIsolation == []IsolatedResults /\ [][WritesOwnFrame]_vars

\* two calls both went through the season lookup, one handling its /tv answer
\* while the other awaited its season answer, and resolved to different streams
C13_Witness ==
  /\ interleaved
  /\ \E i, j \in Requests :
       /\ i # j
       /\ at[i] = "done" /\ at[j] = "done"
       /\ Len(received[i]) = 3 /\ Len(received[j]) = 3
       /\ answer[i].kind = "stream" /\ answer[j].kind = "stream"
       /\ answer[i] # answer[j]
       /\ frame[i].targetDate # frame[j].targetDate

\* ------------------------------------------------------------------ C14

\* how far the handler has come: every step moves it on
PcRank(p) ==
  CASE p = "start" -> 0
    [] p = "find" -> 1
    [] p = "primary" -> 2
    [] p = "season" -> 3
    [] p = "done" -> 4

\* the objects with a streams list the handler can resolve to
StreamsObjects == {"configure", "empty", "error", "stream"}

\* the output lines the handler has built when it reaches its last return
OutputLines ==
  IF type = "movie" THEN MovieLines(rev, finalTheat, finalDig)
  ELSE SeriesLines(targetDate, labelText)

\* formatting one of the output lines throws
ProcessingThrows ==
  \E i \in 1..Len(OutputLines) :
     OutputLines[i].date # Null /\ FormatThrows(rev, OutputLines[i].date, config.timezone)

\* nothing of the primary payload was kept: the primary call may have thrown
NothingFetched ==
  IF type = "movie" THEN Len(pushedTheat) = 0 /\ Len(pushedDig) = 0 ELSE details = Null

\* What the handler has resolved to, by the case the request fell in.
ResolvesByCase ==
  /\ pc # "done" => result = Null
  /\ pc = "done" =>
       /\ result # Null
       /\ result.kind \in StreamsObjects
       /\ config.apiKey = "" => result = ConfigureStream /\ calls = <<>>
       /\ (config.apiKey # "" /\ tmdbId = Null) =>
             result = EmptyStreams /\ calls = <<"find">>
       /\ tmdbId # Null =>
             /\ Len(calls) >= 2 /\ calls[1] = "find" /\ calls[2] = "primary"
             /\ ProcessingThrows => result = ErrorStream
             /\ result.kind = "error" => ProcessingThrows \/ NothingFetched
             /\ ~(ProcessingThrows \/ NothingFetched) => result = OneStream(OutputLines)
             /\ result.kind \in {"error", "stream"}
             /\ result.kind = "stream" =>
                   Len(result.lines) >= 1 /\ result.lines = OutputLines

\* C14: the handler always resolves to an object with a streams list and never
\* rejects, whatever the config and the outcomes of the remote calls: without
\* an apiKey the "Please configure API Key" stream and no remote call; when the
\* id resolution throws or finds no title of the requested type, the empty
\* list and no primary call; when the primary call or its processing throws,
\* the "Error fetching dates" stream; otherwise one stream with the output
\* lines.
\* Resolving is stated as progress: while the handler has not returned, a step
\* is enabled for whatever outcome the awaited call has, and every step moves
\* the handler on, so it returns after at most four steps.
C14_AlwaysResolves ==
  /\ [](ResolvesByCase /\ (pc # "done" => ENABLED Next))
  /\ [][PcRank(pc') > PcRank(pc)]_vars

\* the primary call answered, formatting a reported date threw, and the handler
\* resolved to the error stream
C14_Witness ==
  /\ pc = "done" /\ type = "movie"
  /\ Len(pushedTheat) > 0
  /\ ProcessingThrows
  /\ result = ErrorStream

====
